---- MODULE Spec2Model ----
(***************************************************************************)
(* A model of backend-sim/job_csv_cleaning.py: the CSV cleaning job.       *)
(*                                                                         *)
(*   Spec       run_csv_cleaning_job as a state machine over the job file: *)
(*              load, attempts, status, progress checkpoints, the report,  *)
(*              the except block; every file operation may fault.  The     *)
(*              table stages appear here by their checkpoints only.        *)
(*   SpecInfer  _infer_column applied to columns drawn from a bounded set. *)
(*   SpecTable  steps 6 to 9 of the pipeline on small string tables.       *)
(*                                                                         *)
(* Optional values (a key that may be missing from a dict, a value that    *)
(* may be None) are sequences of length at most one: <<>> is missing/None, *)
(* <<v>> is present.  Progress fractions are kept in hundredths            *)
(* (round(progress, 2) * 100), so 0.1 is 10 and 1.0 is 100.  The updatedAt *)
(* stamp and the report's timestamps are not modelled.                     *)
(***************************************************************************)
EXTENDS Integers, Sequences, FiniteSets, TLC

\* How many times the caller invokes run_csv_cleaning_job on the descriptor.
MaxInvocations == 2

VARIABLES
    desc,       \* the descriptor's input / output / parameters fields
    inputFile,  \* the input CSV on disk, as far as the job reads it
    file,       \* the job file on disk
    job,        \* the job dict in memory
    pc,         \* the position of run_csv_cleaning_job
    exc,        \* the exception caught by the except block
    run,        \* locals of the invocation in flight, and what it has done
    outcome,    \* how the last invocation ended, and what it raised
    calls,      \* counts of the invocations so far, by how they ended
    initial,    \* the attempts value of the descriptor before the first call
    series,     \* SpecInfer: the column given to _infer_column
    inferred,   \* SpecInfer: what _infer_column returned
    params,     \* SpecTable: the normalized parameters of the run
    loaded,     \* SpecTable: the table as step 3 loaded it
    df,         \* SpecTable: the table, each row with its index label
    dtypes,     \* SpecTable: the dtype of each column
    report,     \* SpecTable: the report's removed_nulls and the count before
    stage       \* SpecTable: the next step of the pipeline

lvars == <<desc, inputFile, file, job, pc, exc, run, outcome, calls, initial>>
ivars == <<series, inferred>>
tvars == <<params, loaded, df, dtypes, report, stage>>
vars == <<lvars, ivars, tvars>>

----------------------------------------------------------------------------
(* Strings the job compares after .strip() and .lower().                   *)

Strip(s) ==
    CASE s = " Yes " -> "Yes"
      [] s = " x"    -> "x"
      [] s = " no"   -> "no"
      [] OTHER       -> s

Lower(s) ==
    CASE s = "Auto"    -> "auto"
      [] s = "Latin-1" -> "latin-1"
      [] s = "Yes"     -> "yes"
      [] s = "TRUE"    -> "true"
      [] s = "KeepAsString" -> "keepasstring"
      [] OTHER         -> s

----------------------------------------------------------------------------
(* The job descriptor.                                                     *)

NoParams == [kind |-> "absent", encoding |-> <<>>, delimiter |-> <<>>,
             removeRowLengthMismatch |-> <<>>]

ParameterValues ==
    {NoParams, [NoParams EXCEPT !.kind = "not a dict"]}
    \cup [kind : {"dict"},
          encoding : {<<>>, <<"Auto">>, <<"Latin-1">>},
          delimiter : {<<>>, <<";">>},
          removeRowLengthMismatch : {<<>>, <<"yes">>}]

Descriptors ==
    [input : {<<>>, <<"data.csv">>}, output : {<<>>, <<"out">>},
     parameters : ParameterValues]

\* The input file: missing, or its bytes as _detect_encoding sees them, what
\* csv.Sniffer makes of its first 8192 characters, and whether it has a row.
NoFile == [exists |-> FALSE, validUtf8 |-> FALSE, bom |-> FALSE,
           sniffed |-> <<>>, rows |-> FALSE]

InputFiles ==
    {NoFile,
     [exists |-> TRUE, validUtf8 |-> TRUE,  bom |-> FALSE, sniffed |-> <<";">>, rows |-> TRUE],
     [exists |-> TRUE, validUtf8 |-> FALSE, bom |-> TRUE,  sniffed |-> <<>>,    rows |-> TRUE],
     [exists |-> TRUE, validUtf8 |-> TRUE,  bom |-> TRUE,  sniffed |-> <<>>,    rows |-> FALSE]}

NoJob == [attempts |-> <<>>, status |-> "", progress |-> <<>>, error |-> <<>>]

\* job.get("attempts", 0)
AttemptsOf(j) == IF j.attempts = <<>> THEN 0 ELSE j.attempts[1]

Readable(j) == [readable |-> TRUE, content |-> j]
Corrupt == [readable |-> FALSE, content |-> NoJob]

NoExc == [cls |-> "", msg |-> ""]

NoRun == [loadedAttempts |-> 0, written |-> <<>>, terminal |-> <<>>, reportWrites |-> 0,
          csvWrites |-> 0, encodingCalls |-> 0, delimiterCalls |-> 0,
          encodingUsed |-> <<>>, delimiterUsed |-> <<>>, parsedWith |-> <<>>]

NoCalls == [completed |-> 0, failed |-> 0, aborted |-> 0, unreadable |-> 0]

Invocations == calls.completed + calls.failed + calls.aborted + calls.unreadable

----------------------------------------------------------------------------
(* Helpers of the job.                                                     *)

\* _is_yes on a str
_is_yes(value) == Lower(Strip(value)) \in {"yes", "true", "1"}

\* _normalize_params: canonical keys get their defaults, an unknown key (here
\* "delimiter") is passed through as it is.
_normalize_params(raw) ==
    [encoding |-> IF raw.encoding = <<>> THEN "Auto" ELSE raw.encoding[1],
     removeRowLengthMismatch |->
        IF raw.removeRowLengthMismatch = <<>> THEN "no"
        ELSE raw.removeRowLengthMismatch[1],
     delimiter |-> raw.delimiter]

\* _detect_encoding: utf-8-sig decodes whatever utf-8 decodes, so the second
\* attempt only repeats the first.
_detect_encoding(f) ==
    IF f.validUtf8
    THEN (IF f.bom THEN "utf-8-sig" ELSE "utf-8")
    ELSE (IF f.validUtf8 THEN "utf-8" ELSE "latin-1")

\* _detect_delimiter: the sniffed delimiter, or "," on csv.Error
_detect_delimiter(f) == IF f.sniffed = <<>> THEN "," ELSE f.sniffed[1]

\* EncodingStep without the test of line 282: detection whatever the parameter.
EncodingStepAlwaysDetects(p, f) ==
    [used |-> _detect_encoding(f), detected |-> 1]

\* Step 1: the encoding the run uses, and whether _detect_encoding was called.
EncodingStep(p, f) ==
    LET encoding_param == Strip(p.encoding) IN
    IF Lower(encoding_param) = "auto"
    THEN [used |-> _detect_encoding(f), detected |-> 1]
    ELSE [used |-> encoding_param, detected |-> 0]

\* Step 2: the delimiter the run uses, and whether _detect_delimiter was called.
DelimiterStep(p, f) == [used |-> _detect_delimiter(f), detected |-> 1]

\* Begin with job.get("attempts", 1) for job.get("attempts", 0).
BeginCountsFromOne(j) ==
    [j EXCEPT !.attempts = <<(IF j.attempts = <<>> THEN 1 ELSE j.attempts[1]) + 1>>,
              !.status = "processing", !.error = <<>>]

\* Lines 220-222: the loaded dict as the run starts on it.
Begin(j) ==
    [j EXCEPT !.attempts = <<AttemptsOf(j) + 1>>, !.status = "processing",
              !.error = <<>>]

\* The error object of the except block.
ErrorOf(e) ==
    [message |-> e.msg,
     type |-> IF e.cls \in {"ValueError", "IOError", "OSError"} THEN e.cls
              ELSE "Exception",
     step |-> ""]

\* What a fault of open(job_path, "w") / json.dump raises and leaves on disk:
\* open refused (the file as it was) or the dump cut short (a truncated file).
WriteFaults ==
    {[cls |-> "PermissionError", msg |-> "job file: permission denied", truncated |-> FALSE],
     [cls |-> "OSError", msg |-> "job file: no space left on device", truncated |-> TRUE]}

FaultOf(w) == [cls |-> w.cls, msg |-> w.msg]
FileAfter(w) == IF w.truncated THEN Corrupt ELSE file

\* The progress values written so far, after j was written.
Recorded(r, j) ==
    IF j.progress = <<>> THEN r ELSE [r EXCEPT !.written = Append(@, j.progress[1])]

Raise(e) == exc' = e /\ pc' = "except"

\* _set_progress(job, job_json_path, p) as the last statement of a stage whose
\* body left the locals r; the run goes on at next.
Checkpoint(r, p, next) ==
    LET j == [job EXCEPT !.progress = <<p>>] IN
    /\ job' = j
    /\ \/ /\ file' = Readable(j)
          /\ run' = Recorded(r, j)
          /\ pc' = next
          /\ exc' = exc
       \/ \E w \in WriteFaults :
             /\ file' = FileAfter(w)
             /\ run' = r
             /\ Raise(FaultOf(w))

----------------------------------------------------------------------------
(* run_csv_cleaning_job                                                    *)

NoColumn == series = <<>> /\ inferred = [done |-> FALSE, dtype |-> "", cells |-> <<>>]

NoTable ==
    /\ params = [dataTypeInference |-> "", whitespaceTrimming |-> "",
                 emptyStringToNull |-> "", removeRowsWithNulls |-> <<>>]
    /\ loaded = <<>> /\ df = <<>> /\ dtypes = <<>>
    /\ report = [before_null |-> 0, removed_nulls |-> <<>>]
    /\ stage = ""

Init ==
    /\ desc \in Descriptors
    /\ inputFile \in InputFiles
    /\ \E a \in {<<>>, <<0>>} :
          /\ file = Readable([NoJob EXCEPT !.attempts = a, !.status = "queued"])
          /\ initial = AttemptsOf([NoJob EXCEPT !.attempts = a])
    /\ job = NoJob
    /\ pc = "idle"
    /\ exc = NoExc
    /\ run = NoRun
    /\ outcome = [how |-> "none", raised |-> NoExc]
    /\ calls = NoCalls
    /\ NoColumn /\ NoTable

\* Lines 216-222: json.load of a readable job file, attempts, status, error.
Load ==
    /\ pc = "idle" /\ Invocations < MaxInvocations
    /\ file.readable
    /\ job' = Begin(file.content)
    /\ run' = [NoRun EXCEPT !.loadedAttempts = AttemptsOf(file.content)]
    /\ exc' = NoExc
    /\ outcome' = [how |-> "running", raised |-> NoExc]
    /\ pc' = "initial_write"
    /\ UNCHANGED <<desc, inputFile, file, calls, initial, ivars, tvars>>

\* Lines 216-217 on a truncated job file: json.load raises, nothing is written.
LoadUnreadable ==
    /\ pc = "idle" /\ Invocations < MaxInvocations
    /\ ~file.readable
    /\ outcome' = [how |-> "raised",
                   raised |-> [cls |-> "JSONDecodeError", msg |-> "job file: not JSON"]]
    /\ calls' = [calls EXCEPT !.unreadable = @ + 1]
    /\ run' = NoRun /\ exc' = NoExc
    /\ UNCHANGED <<desc, inputFile, file, job, pc, initial, ivars, tvars>>

\* Line 223: the first write, outside the try block.
InitialWrite ==
    /\ pc = "initial_write"
    /\ \/ /\ file' = Readable(job)
          /\ run' = Recorded(run, job)
          /\ pc' = "validate"
          /\ UNCHANGED <<outcome, calls>>
       \/ \E w \in WriteFaults :
             /\ file' = FileAfter(w)
             /\ outcome' = [how |-> "raised", raised |-> FaultOf(w)]
             /\ calls' = [calls EXCEPT !.aborted = @ + 1]
             /\ pc' = "idle"
             /\ UNCHANGED run
    /\ UNCHANGED <<desc, inputFile, job, exc, initial, ivars, tvars>>

\* Lines 228-243
Validate ==
    /\ pc = "validate"
    /\ IF desc.input = <<>>
       THEN Raise([cls |-> "ValueError", msg |-> "Job JSON missing required field: 'input'"])
       ELSE IF desc.output = <<>>
       THEN Raise([cls |-> "ValueError", msg |-> "Job JSON missing required field: 'output'"])
       ELSE IF desc.parameters.kind = "absent"
       THEN Raise([cls |-> "ValueError", msg |-> "Job JSON missing required field: 'parameters'"])
       ELSE IF desc.parameters.kind # "dict"
       THEN Raise([cls |-> "ValueError", msg |-> "'parameters' must be a JSON object"])
       ELSE pc' = "prepare_output" /\ exc' = exc
    /\ UNCHANGED <<desc, inputFile, file, job, run, outcome, calls, initial, ivars, tvars>>

\* Lines 245-278: os.makedirs, the file names, the empty report, progress 0.0
PrepareOutput ==
    /\ pc = "prepare_output"
    /\ \/ /\ Raise([cls |-> "PermissionError", msg |-> "output folder: permission denied"])
          /\ UNCHANGED <<file, job, run>>
       \/ Checkpoint(run, 0, "encoding_detection")
    /\ UNCHANGED <<desc, inputFile, outcome, calls, initial, ivars, tvars>>

\* Lines 280-289
EncodingDetection ==
    /\ pc = "encoding_detection"
    /\ LET step == EncodingStep(_normalize_params(desc.parameters), inputFile) IN
       IF step.detected = 1 /\ ~inputFile.exists
       THEN /\ Raise([cls |-> "FileNotFoundError", msg |-> "input: no such file"])
            /\ run' = [run EXCEPT !.encodingCalls = @ + 1]
            /\ UNCHANGED <<file, job>>
       ELSE Checkpoint([run EXCEPT !.encodingCalls = @ + step.detected,
                                   !.encodingUsed = <<step.used>>],
                       10, "delimiter_detection")
    /\ UNCHANGED <<desc, inputFile, outcome, calls, initial, ivars, tvars>>

\* Lines 291-295
DelimiterDetection ==
    /\ pc = "delimiter_detection"
    /\ LET step == DelimiterStep(_normalize_params(desc.parameters), inputFile) IN
       IF step.detected = 1 /\ ~inputFile.exists
       THEN /\ Raise([cls |-> "FileNotFoundError", msg |-> "input: no such file"])
            /\ run' = [run EXCEPT !.delimiterCalls = @ + 1]
            /\ UNCHANGED <<file, job>>
       ELSE Checkpoint([run EXCEPT !.delimiterCalls = @ + step.detected,
                                   !.delimiterUsed = <<step.used>>],
                       20, "read_csv")
    /\ UNCHANGED <<desc, inputFile, outcome, calls, initial, ivars, tvars>>

\* Lines 297-331: csv.reader and the empty check, or pd.read_csv on the file
ReadCsv ==
    /\ pc = "read_csv"
    /\ LET remove_mismatch ==
               _is_yes(_normalize_params(desc.parameters).removeRowLengthMismatch)
       IN  IF ~inputFile.rows
           THEN /\ IF remove_mismatch
                   THEN Raise([cls |-> "ValueError",
                               msg |-> "Input CSV is empty (no rows found)."])
                   ELSE Raise([cls |-> "EmptyDataError",
                               msg |-> "No columns to parse from file"])
                /\ UNCHANGED <<file, job, run>>
           ELSE Checkpoint([run EXCEPT !.parsedWith = run.delimiterUsed],
                           30, "header_normalization")
    /\ UNCHANGED <<desc, inputFile, outcome, calls, initial, ivars, tvars>>

\* Lines 333-346
HeaderNormalization ==
    /\ pc = "header_normalization"
    /\ Checkpoint(run, 40, "type_inference")
    /\ UNCHANGED <<desc, inputFile, outcome, calls, initial, ivars, tvars>>

\* Lines 348-358
TypeInferenceStage ==
    /\ pc = "type_inference"
    /\ Checkpoint(run, 50, "whitespace_trimming")
    /\ UNCHANGED <<desc, inputFile, outcome, calls, initial, ivars, tvars>>

\* Lines 360-366
WhitespaceTrimmingStage ==
    /\ pc = "whitespace_trimming"
    /\ Checkpoint(run, 60, "empty_string_to_null")
    /\ UNCHANGED <<desc, inputFile, outcome, calls, initial, ivars, tvars>>

\* Lines 368-373
EmptyStringToNullStage ==
    /\ pc = "empty_string_to_null"
    /\ Checkpoint(run, 70, "remove_rows_with_nulls")
    /\ UNCHANGED <<desc, inputFile, outcome, calls, initial, ivars, tvars>>

\* Lines 375-393
RemoveRowsWithNullsStage ==
    /\ pc = "remove_rows_with_nulls"
    /\ Checkpoint(run, 80, "duplicate_rows_removal")
    /\ UNCHANGED <<desc, inputFile, outcome, calls, initial, ivars, tvars>>

\* Lines 395-403
DuplicateRowsRemovalStage ==
    /\ pc = "duplicate_rows_removal"
    /\ Checkpoint(run, 90, "write_csv")
    /\ UNCHANGED <<desc, inputFile, outcome, calls, initial, ivars, tvars>>

\* Line 406: df.to_csv
WriteCsv ==
    /\ pc = "write_csv"
    /\ \/ /\ run' = [run EXCEPT !.csvWrites = @ + 1]
          /\ pc' = "write_report"
          /\ exc' = exc
       \/ /\ Raise([cls |-> "PermissionError", msg |-> "cleaned csv: permission denied"])
          /\ run' = run
    /\ UNCHANGED <<desc, inputFile, file, job, outcome, calls, initial, ivars, tvars>>

\* Lines 408-412: the report file
WriteReport ==
    /\ pc = "write_report"
    /\ \/ /\ run' = [run EXCEPT !.reportWrites = @ + 1]
          /\ pc' = "complete"
          /\ exc' = exc
       \/ /\ Raise([cls |-> "PermissionError", msg |-> "report: permission denied"])
          /\ run' = run
    /\ UNCHANGED <<desc, inputFile, file, job, outcome, calls, initial, ivars, tvars>>

\* Lines 414-417 and the return of line 432
Complete ==
    /\ pc = "complete"
    /\ LET j == [job EXCEPT !.status = "completed", !.progress = <<100>>,
                            !.error = <<>>]
           r == [run EXCEPT !.terminal = Append(@, "completed")]
       IN  /\ job' = j
           /\ \/ /\ file' = Readable(j)
                 /\ run' = Recorded(r, j)
                 /\ outcome' = [how |-> "returned", raised |-> NoExc]
                 /\ calls' = [calls EXCEPT !.completed = @ + 1]
                 /\ pc' = "idle"
                 /\ exc' = exc
              \/ \E w \in WriteFaults :
                    /\ file' = FileAfter(w)
                    /\ run' = r
                    /\ Raise(FaultOf(w))
                    /\ UNCHANGED <<outcome, calls>>
    /\ UNCHANGED <<desc, inputFile, initial, ivars, tvars>>

\* Lines 419-430: the except block; a fault of its own write propagates
\* instead of the fault it caught.
ExceptBlock ==
    /\ pc = "except"
    /\ LET j == [job EXCEPT !.status = "failed", !.error = <<ErrorOf(exc)>>]
           r == [run EXCEPT !.terminal = Append(@, "failed")]
       IN  /\ job' = j
           /\ \/ /\ file' = Readable(j)
                 /\ run' = Recorded(r, j)
                 /\ outcome' = [how |-> "raised", raised |-> exc]
              \/ \E w \in WriteFaults :
                    /\ file' = FileAfter(w)
                    /\ run' = r
                    /\ outcome' = [how |-> "raised", raised |-> FaultOf(w)]
    /\ calls' = [calls EXCEPT !.failed = @ + 1]
    /\ pc' = "idle"
    /\ UNCHANGED <<desc, inputFile, exc, initial, ivars, tvars>>

Next ==
    \/ Load \/ LoadUnreadable \/ InitialWrite \/ Validate \/ PrepareOutput
    \/ EncodingDetection \/ DelimiterDetection \/ ReadCsv
    \/ HeaderNormalization \/ TypeInferenceStage \/ WhitespaceTrimmingStage
    \/ EmptyStringToNullStage \/ RemoveRowsWithNullsStage
    \/ DuplicateRowsRemovalStage \/ WriteCsv \/ WriteReport \/ Complete
    \/ ExceptBlock

Spec == Init /\ [][Next]_vars

----------------------------------------------------------------------------
(* Properties of run_csv_cleaning_job, checked under Spec.                 *)

TryBody ==
    {"validate", "prepare_output", "encoding_detection", "delimiter_detection",
     "read_csv", "header_normalization", "type_inference", "whitespace_trimming",
     "empty_string_to_null", "remove_rows_with_nulls", "duplicate_rows_removal",
     "write_csv", "write_report", "complete"}

NonDecreasing(s) == \A i \in 1..(Len(s) - 1) : s[i] <= s[i + 1]

\* The invocation in flight, or the last one, got as far as loading the job.
LoadedJob == Invocations > 0 /\ outcome.raised.cls # "JSONDecodeError"

\* C1: the progress values written to the job file during one invocation, on a
\* fresh descriptor or one left by an earlier invocation, never decrease, and
\* an invocation that returns wrote 1.0 last.
C1_ProgressNonDecreasing ==
    /\ NonDecreasing(run.written)
    /\ outcome.how = "returned" =>
          /\ run.written # <<>>
          /\ run.written[Len(run.written)] = 100

\* C2: an invocation that loads the descriptor adds exactly 1 to attempts and
\* has it on disk before validation or any stage runs; the attempts on disk
\* are the initial value plus the number of invocations that completed or
\* failed at a stage (plus the one in flight, once it is past its first write).
C2_AttemptsOncePerInvocation ==
    /\ pc # "idle" => job.attempts = <<run.loadedAttempts + 1>>
    /\ pc \in TryBody =>
          /\ file.readable
          /\ file.content.attempts = <<run.loadedAttempts + 1>>
    /\ file.readable =>
          AttemptsOf(file.content)
             = initial + calls.completed + calls.failed
               + (IF pc \in TryBody \cup {"except"} THEN 1 ELSE 0)

\* C2's case: two invocations on one descriptor, one completed and one failed,
\* and the attempts on disk count both.
C2_Witness ==
    /\ pc = "idle" /\ calls.completed = 1 /\ calls.failed = 1
    /\ file.readable /\ file.content.attempts = <<initial + 2>>

\* C3: once status is processing, it is set to a terminal value exactly once
\* in the invocation, and the call returns only with completed on disk and
\* raises only with failed on disk.
C3_OneTerminalStatusPersisted ==
    /\ Len(run.terminal) <= 1
    /\ outcome.how = "returned" =>
          /\ run.terminal = <<"completed">>
          /\ file = Readable(job) /\ job.status = "completed"
    /\ (outcome.how = "raised" /\ LoadedJob) =>
          /\ run.terminal = <<"failed">>
          /\ file = Readable(job) /\ job.status = "failed"

\* The fault classes of the spec's error kinds: a filesystem fault is an
\* OSError of any class, a configuration fault is one of the validation's.
IsFilesystemFault(e) == e.cls \in {"OSError", "FileNotFoundError", "PermissionError"}

IsConfigurationFault(e) ==
    e.msg \in {"Job JSON missing required field: 'input'",
               "Job JSON missing required field: 'output'",
               "Job JSON missing required field: 'parameters'",
               "'parameters' must be a JSON object"}

\* C4: a fault caught by the except block is recorded as {message, type, step},
\* is on disk with status failed when the call raises, and is the fault the
\* caller gets; a filesystem fault is never recorded as "Exception" and only a
\* configuration fault is recorded as "ValueError".
C4_FaultRecordedAndClassified ==
    (outcome.how = "raised" /\ LoadedJob /\ exc # NoExc) =>
        /\ Len(job.error) = 1
        /\ job.error[1].message = exc.msg
        /\ job.status = "failed" /\ file = Readable(job)
        /\ outcome.raised = exc
        /\ IsFilesystemFault(exc) => job.error[1].type # "Exception"
        /\ ~IsConfigurationFault(exc) => job.error[1].type # "ValueError"

\* C5: an invocation writes the report at most once, and one that ends with
\* status failed has not written it.
C5_ReportOnlyOnSuccess ==
    /\ run.reportWrites <= 1
    /\ (pc = "idle" /\ job.status = "failed") => run.reportWrites = 0

ExplicitEncoding ==
    /\ desc.parameters.encoding # <<>>
    /\ desc.parameters.encoding[1] \notin {"Auto", "auto", "AUTO"}

\* Step 1 ran: the run has an encoding.  Step 2 ran: it has a delimiter.
PastEncoding == run.encodingUsed # <<>>
PastDelimiter == run.delimiterUsed # <<>>

EncodingOnlyOnAuto ==
    PastEncoding =>
        IF ExplicitEncoding
        THEN /\ run.encodingCalls = 0
             /\ run.encodingUsed = desc.parameters.encoding
        ELSE /\ run.encodingCalls = 1
             /\ run.encodingUsed = <<_detect_encoding(inputFile)>>

\* C6 as stated: _detect_encoding and _detect_delimiter each run only on
\* "Auto"; with an explicit encoding or delimiter the supplied one is used.
C6_DetectionOnlyOnAuto ==
    /\ EncodingOnlyOnAuto
    /\ (desc.parameters.delimiter # <<>> /\ pc \notin {"idle", "initial_write"}) =>
          /\ run.delimiterCalls = 0
          /\ PastDelimiter => run.delimiterUsed = desc.parameters.delimiter
          /\ run.parsedWith # <<>> => run.parsedWith = desc.parameters.delimiter

\* C6 amended: encoding detection runs only on "Auto" and an explicit encoding
\* is used as supplied; delimiter detection runs in every run that reaches
\* step 2, and the file is parsed with the detected delimiter whatever
\* "delimiter" the parameters carry.
C6_EncodingBypassDelimiterAlwaysDetected ==
    /\ EncodingOnlyOnAuto
    /\ PastDelimiter =>
          /\ run.delimiterCalls = 1
          /\ run.delimiterUsed = <<_detect_delimiter(inputFile)>>
    /\ run.parsedWith # <<>> => run.parsedWith = <<_detect_delimiter(inputFile)>>

\* C6's case: explicit encoding and explicit delimiter ";", and the file has
\* been parsed with the detected "," instead.
C6_Witness ==
    /\ ExplicitEncoding /\ run.encodingCalls = 0
    /\ desc.parameters.delimiter = <<";">>
    /\ run.delimiterCalls = 1 /\ run.parsedWith = <<",">>

----------------------------------------------------------------------------
(* _infer_column.  A cell is a kind and its text: a str as read from the   *)
(* file, or a bool, int, float or date made of it, or null (pd.NA, NaN and *)
(* NaT alike).  What pandas and re do to a string is tabulated for the     *)
(* strings the columns are drawn from.                                     *)

\* The longest column given to _infer_column.
MaxColumnLen == 3

Null == [k |-> "null", v |-> ""]
Str(s) == [k |-> "str", v |-> s]
notna(c) == c.k # "null"

InferStrings ==
    {"1", "0", " Yes ", "2", "1.5", "2.0", "x", "2024-01-15", "2024-02-30"}

\* bool_map.keys() with "1" and "0" left out.
BoolMapKeysWithoutDigits == {"true", "false", "yes", "no"}

\* bool_map.keys()
BoolMapKeys == {"true", "false", "yes", "no", "1", "0"}

\* bool_map.get
bool_map(s) == IF s \in {"true", "yes", "1"} THEN "True" ELSE "False"

\* pd.to_numeric parses the string
ParsesAsNumber(s) == s \in {"1", "0", "2", "7", "1.5", "2.0"}

\* converted == converted.astype(int) for the parsed string
IsIntegral(s) == s \in {"1", "0", "2", "7", "2.0"}

\* pd.to_numeric(..., errors="coerce").astype("Int64") of one cell
ToInt64(c) ==
    IF notna(c) /\ ParsesAsNumber(c.v)
    THEN [k |-> "int", v |-> IF c.v = "2.0" THEN "2" ELSE c.v]
    ELSE Null

\* pd.to_numeric(..., errors="coerce") of one cell, as float64
ToFloat64(c) ==
    IF notna(c) /\ ParsesAsNumber(c.v)
    THEN [k |-> "float", v |-> IF c.v \in {"1.5", "2.0"} THEN c.v
                               ELSE IF c.v = "1" THEN "1.0"
                               ELSE IF c.v = "0" THEN "0.0"
                               ELSE IF c.v = "2" THEN "2.0" ELSE "7.0"]
    ELSE Null

\* re.compile(r"^\d{4}-\d{2}-\d{2}$") matches the string
MatchesDatePattern(s) == s \in {"2024-01-15", "2024-02-30"}

\* pd.to_datetime(..., format="%Y-%m-%d", errors="coerce") of one cell: a
\* string that is no calendar date becomes NaT, nothing is raised.
ToDatetime(c) ==
    IF notna(c) /\ c.v = "2024-01-15" THEN [k |-> "date", v |-> c.v] ELSE Null

\* series.dropna().astype(str).str.strip()
StrippedNonNull(s) ==
    LET kept == SelectSeq(s, notna) IN [i \in 1..Len(kept) |-> Strip(kept[i].v)]

\* Series.all() of a test of each value
AllBoolKeys(s) == \A i \in 1..Len(s) : Lower(s[i]) \in BoolMapKeys
AllParseAsNumber(s) == \A i \in 1..Len(s) : ParsesAsNumber(s[i])
AllIntegralValues(s) == \A i \in 1..Len(s) : IsIntegral(s[i])
AllMatchDatePattern(s) == \A i \in 1..Len(s) : MatchesDatePattern(s[i])
NoNulls(s) == \A i \in 1..Len(s) : notna(s[i])

_infer_column(s) ==
    LET non_null == StrippedNonNull(s) IN
    IF non_null = <<>> THEN [dtype |-> "object", cells |-> s]
    ELSE IF AllBoolKeys(non_null)
    THEN [dtype |-> IF NoNulls(s) THEN "bool" ELSE "object",
          cells |-> [i \in 1..Len(s) |->
                        IF notna(s[i])
                        THEN [k |-> "bool", v |-> bool_map(Lower(Strip(s[i].v)))]
                        ELSE Null]]
    ELSE IF AllParseAsNumber(non_null)
    THEN (IF AllIntegralValues(non_null)
          THEN [dtype |-> "Int64", cells |-> [i \in 1..Len(s) |-> ToInt64(s[i])]]
          ELSE [dtype |-> "float64", cells |-> [i \in 1..Len(s) |-> ToFloat64(s[i])]])
    ELSE IF AllMatchDatePattern(non_null)
    THEN [dtype |-> "datetime64", cells |-> [i \in 1..Len(s) |-> ToDatetime(s[i])]]
    ELSE [dtype |-> "object", cells |-> s]

Columns(values, n) == UNION {[1..m -> values] : m \in 0..n}

InitInfer ==
    /\ series \in Columns({Str(x) : x \in InferStrings} \cup {Null}, MaxColumnLen)
    /\ inferred = [done |-> FALSE, dtype |-> "", cells |-> <<>>]
    /\ desc = [input |-> <<>>, output |-> <<>>, parameters |-> NoParams]
    /\ inputFile = NoFile /\ file = Corrupt /\ job = NoJob /\ pc = ""
    /\ exc = NoExc /\ run = NoRun
    /\ outcome = [how |-> "none", raised |-> NoExc]
    /\ calls = NoCalls /\ initial = 0
    /\ NoTable

\* df[col] = _infer_column(df[col])
InferColumn ==
    /\ ~inferred.done
    /\ inferred' = [done |-> TRUE] @@ _infer_column(series)
    /\ UNCHANGED <<series, lvars, tvars>>

NextInfer == InferColumn

SpecInfer == InitInfer /\ [][NextInfer]_vars

----------------------------------------------------------------------------
(* Properties of _infer_column, checked under SpecInfer.                   *)

\* The trimmed non-null values of the column given.
Values == {Strip(series[i].v) : i \in {j \in 1..Len(series) : series[j] # Null}}

AllBoolean ==
    \A s \in Values : s \in {"1", "0", "Yes", "yes", "true", "false", "no"}
AllNumeric == \A s \in Values : s \in {"1", "0", "2", "1.5", "2.0"}
AllIntegral == \A s \in Values : s \in {"1", "0", "2", "2.0"}
AllDatePattern == \A s \in Values : s \in {"2024-01-15", "2024-02-30"}

\* The type of the first rule, in the order boolean, numeric, date, string,
\* that every trimmed non-null value satisfies.
FirstRule ==
    IF AllBoolean THEN "bool"
    ELSE IF AllNumeric THEN (IF AllIntegral THEN "int" ELSE "float")
    ELSE IF AllDatePattern THEN "date"
    ELSE "str"

\* The kinds of the cells _infer_column returned that are not null.
KindsReturned ==
    {inferred.cells[i].k : i \in {j \in 1..Len(inferred.cells) : inferred.cells[j] # Null}}

\* C7: a column with a non-null value gets the type of the first rule, in the
\* order boolean, integer/float, date, string, that all its trimmed non-null
\* values satisfy; a column of "1"/"0" becomes boolean, a column with a
\* non-numeric value is not made numeric; an all-null column is unchanged.
C7_FirstMatchingRule ==
    inferred.done =>
        /\ Len(inferred.cells) = Len(series)
        /\ Values = {} => inferred.cells = series
        /\ Values # {} =>
              /\ KindsReturned \subseteq {FirstRule}
              /\ FirstRule \in {"bool", "int", "float"} =>
                    \A i \in 1..Len(series) :
                        (series[i] # Null) <=> (inferred.cells[i].k = FirstRule)
              /\ FirstRule = "str" => inferred.cells = series
              /\ FirstRule = "bool" =>
                    \A i \in 1..Len(series) :
                        series[i] # Null =>
                            inferred.cells[i].v
                               = (IF Strip(series[i].v) \in {"1", "Yes"}
                                  THEN "True" ELSE "False")
        /\ (Values # {} /\ Values \subseteq {"1", "0"}) => KindsReturned = {"bool"}
        /\ (Values \ {"1", "0", "2", "1.5", "2.0"} # {}) =>
              KindsReturned \cap {"int", "float"} = {}

\* C7's case: "1" and "0" with a null between them, returned as booleans.
C7_Witness ==
    /\ inferred.done
    /\ series = <<Str("1"), Null, Str("0")>>
    /\ inferred.cells = <<[k |-> "bool", v |-> "True"], Null, [k |-> "bool", v |-> "False"]>>

\* C8: _infer_column converts every non-null cell of a column to one native
\* type, leaving none null, or changes no cell; a column of YYYY-MM-DD strings
\* with one that is no calendar date is left as it was.
C8_AllOrNothing ==
    inferred.done =>
        /\ \/ inferred.cells = series
           \/ /\ Cardinality(KindsReturned) = 1
              /\ KindsReturned \subseteq {"bool", "int", "float", "date"}
              /\ \A i \in 1..Len(series) :
                    (series[i] = Null) <=> (inferred.cells[i] = Null)
        /\ (AllDatePattern /\ "2024-02-30" \in Values) => inferred.cells = series

----------------------------------------------------------------------------
(* Steps 6 to 9 of run_csv_cleaning_job on the table.  A row of df carries *)
(* its index label, which pandas keeps when rows are dropped.  The tables  *)
(* hold no boolean strings, so every object column holds str cells only.   *)

\* The most data rows of a loaded table.
MaxRows == 2

ColumnNames == <<"a", "b">>
Width == 1..Len(ColumnNames)

TableStrings == {"", " x", "7"}

\* removeRowsWithNulls after _normalize_params: a mode, and a threshold that
\* may be missing until line 114 sets it to 1.
NullRemovals ==
    [mode : {"any", "all", " no"}, threshold : {<<>>}]
    \cup [mode : {"threshold"}, threshold : {<<>>, <<0>>, <<2>>, <<3>>}]

\* rrn.setdefault("threshold", 1), then int(rrn.get("threshold", 1))
ThresholdOf(rrn) == IF rrn.threshold = <<>> THEN 1 ELSE rrn.threshold[1]

Column(d, c) == [i \in 1..Len(d) |-> d[i].cells[c]]

\* df.replace("", pd.NA)
ReplaceEmpty(d) ==
    [i \in 1..Len(d) |->
        [d[i] EXCEPT !.cells = [c \in Width |->
            IF d[i].cells[c] = Str("") THEN Null ELSE d[i].cells[c]]]]

\* df.notna().sum(axis=1) for one row
NonNullCount(r) == Cardinality({c \in Width : notna(r.cells[c])})

\* The comparison of line 387 with > for >=.
MeetsThresholdStrictly(count, threshold) == count > threshold

\* Line 387: the row is kept
MeetsThreshold(count, threshold) == count >= threshold

\* Lines 381-388
DropNullRows(d, null_mode, threshold) ==
    IF null_mode = "any"
    THEN SelectSeq(d, LAMBDA r : \A c \in Width : notna(r.cells[c]))
    ELSE IF null_mode = "all"
    THEN SelectSeq(d, LAMBDA r : \E c \in Width : notna(r.cells[c]))
    ELSE IF null_mode = "threshold"
    THEN SelectSeq(d, LAMBDA r : MeetsThreshold(NonNullCount(r), threshold))
    ELSE d

InitTable ==
    /\ params \in [dataTypeInference : {"Auto", "KeepAsString"},
                   whitespaceTrimming : {"yes", "no"},
                   emptyStringToNull : {"yes", "no"},
                   removeRowsWithNulls : NullRemovals]
    /\ loaded \in Columns([Width -> {Str(x) : x \in TableStrings}], MaxRows)
    /\ df = [i \in 1..Len(loaded) |-> [index |-> i, cells |-> loaded[i]]]
    /\ dtypes = [c \in Width |-> "object"]
    /\ report = [before_null |-> 0, removed_nulls |-> <<>>]
    /\ stage = "type_inference"
    /\ desc = [input |-> <<>>, output |-> <<>>, parameters |-> NoParams]
    /\ inputFile = NoFile /\ file = Corrupt /\ job = NoJob /\ pc = ""
    /\ exc = NoExc /\ run = NoRun
    /\ outcome = [how |-> "none", raised |-> NoExc]
    /\ calls = NoCalls /\ initial = 0
    /\ NoColumn

\* Lines 348-358
TypeInference ==
    /\ stage = "type_inference"
    /\ IF Lower(Strip(params.dataTypeInference)) = "auto"
       THEN LET d == ReplaceEmpty(df)
                col == [c \in Width |-> _infer_column(Column(d, c))]
            IN  /\ df' = [i \in 1..Len(d) |->
                            [d[i] EXCEPT !.cells = [c \in Width |-> col[c].cells[i]]]]
                /\ dtypes' = [c \in Width |-> col[c].dtype]
       ELSE UNCHANGED <<df, dtypes>>
    /\ stage' = "whitespace_trimming"
    /\ UNCHANGED <<params, loaded, report, lvars, ivars>>

\* Lines 360-366
WhitespaceTrimming ==
    /\ stage = "whitespace_trimming"
    /\ IF _is_yes(params.whitespaceTrimming)
       THEN df' = [i \in 1..Len(df) |->
                     [df[i] EXCEPT !.cells = [c \in Width |->
                         IF dtypes[c] = "object" /\ notna(df[i].cells[c])
                         THEN Str(Strip(df[i].cells[c].v))
                         ELSE df[i].cells[c]]]]
       ELSE UNCHANGED df
    /\ stage' = "empty_string_to_null"
    /\ UNCHANGED <<params, loaded, dtypes, report, lvars, ivars>>

\* Lines 368-373
EmptyStringToNull ==
    /\ stage = "empty_string_to_null"
    /\ IF _is_yes(params.emptyStringToNull)
       THEN df' = ReplaceEmpty(df)
       ELSE UNCHANGED df
    /\ stage' = "remove_rows_with_nulls"
    /\ UNCHANGED <<params, loaded, dtypes, report, lvars, ivars>>

\* Lines 375-393
RemoveRowsWithNulls ==
    /\ stage = "remove_rows_with_nulls"
    /\ LET rrn == params.removeRowsWithNulls
           null_mode == Lower(Strip(rrn.mode))
           kept == DropNullRows(df, null_mode, ThresholdOf(rrn))
       IN  /\ df' = kept
           /\ report' = [before_null |-> Len(df),
                         removed_nulls |-> <<[count |-> Len(df) - Len(kept),
                                              mode |-> null_mode]>>]
    /\ stage' = "duplicate_rows_removal"
    /\ UNCHANGED <<params, loaded, dtypes, lvars, ivars>>

NextTable ==
    TypeInference \/ WhitespaceTrimming \/ EmptyStringToNull \/ RemoveRowsWithNulls

SpecTable == InitTable /\ [][NextTable]_vars

----------------------------------------------------------------------------
(* Properties of steps 6 to 9, checked under SpecTable.                    *)

\* The rows null-row removal is to keep, by the mode and threshold given.
Prescribed(r) ==
    LET given == params.removeRowsWithNulls
        nonNull == {c \in 1..2 : r.cells[c].k # "null"}
    IN  CASE given.mode = "any" -> nonNull = 1..2
          [] given.mode = "all" -> nonNull # {}
          [] given.mode = "threshold" ->
                Cardinality(nonNull)
                   >= (IF given.threshold = <<>> THEN 1 ELSE given.threshold[1])
          [] OTHER -> TRUE

\* C9: null-row removal keeps exactly the rows its mode prescribes (any: no
\* null cell; all: a non-null cell; threshold: at least threshold non-null
\* cells, 1 by default; no: every row), in their order, and reports as
\* removed_nulls.count the row count before minus the row count after.
C9_NullRowRemoval ==
    [][stage = "remove_rows_with_nulls" =>
          /\ \A i \in 1..Len(df) :
                Prescribed(df[i]) <=> (\E j \in 1..Len(df') : df'[j] = df[i])
          /\ \A j \in 1..Len(df') : \E i \in 1..Len(df) : df'[j] = df[i]
          /\ \A j, k \in 1..Len(df') : j < k => df'[j].index < df'[k].index
          /\ Len(report'.removed_nulls) = 1
          /\ report'.removed_nulls[1].count = Len(df) - Len(df')
    ]_vars

\* C9's case: threshold 2 on two rows, the one with a single non-null cell
\* removed and the one with two kept.
C9_Witness ==
    /\ stage = "duplicate_rows_removal"
    /\ params.removeRowsWithNulls = [mode |-> "threshold", threshold |-> <<2>>]
    /\ report.before_null = 2
    /\ report.removed_nulls = <<[count |-> 1, mode |-> "threshold"]>>
    /\ Len(df) = 1 /\ df[1].index = 2
    /\ \A c \in 1..2 : df[1].cells[c] # Null

\* C10: with emptyStringToNull disabled, whatever the other toggles, a cell
\* loaded as an empty string is never null: it is an empty string in every
\* table of the run.
C10_EmptyStringsKeptWhenDisabled ==
    params.emptyStringToNull = "no" =>
        \A i \in 1..Len(df) : \A c \in 1..2 :
            loaded[df[i].index][c] = Str("") => df[i].cells[c] = Str("")

====
